---- MODULE Spec2Model ----
(***************************************************************************)
(* The forensic engine of services/forensic-engine/main.py: analyze_pcap   *)
(* reads the dissector's rows one by one, folds each accepted row into one *)
(* session of a direction-independent flow key, emits timeline events,     *)
(* and after the stream ends finalizes the sessions (duration, rule flags) *)
(* and assembles the artifact (sessions and timeline sorted).              *)
(*                                                                         *)
(* Text is a TLA+ string.  Python's Optional[T] is None (the empty tuple)  *)
(* or Some(x) (the one-element tuple).  Timestamps are whole seconds, so   *)
(* float arithmetic on them is exact.                                      *)
(***************************************************************************)
EXTENDS Integers, Sequences, FiniteSets, TLC

VARIABLES
    pcap_is_file,   \* os.path.isfile(pcap_path)
    tshark_found,   \* _resolve_tshark finds an executable
    cap,            \* the argument sample_frames_per_session
    pc,             \* where analyze_pcap is: start, reading, done, or what it raised
    rows_read,      \* the rows the reader has yielded so far, in order
    sessions,       \* the dict sessions, as its items in insertion order
    events,         \* the list events
    packet_count,   \* the counter packet_count
    first_ts,       \* Optional[float]
    last_ts,        \* Optional[float]
    artifact,       \* Optional: what analyze_pcap returned
    written         \* Optional: what _cmd_analyze wrote to the output

vars == <<pcap_is_file, tshark_found, cap, pc, rows_read, sessions, events,
          packet_count, first_ts, last_ts, artifact, written>>

-----------------------------------------------------------------------------
(* Bounds of the model. *)

\* The longest record stream the dissector delivers.
MaxRecords == 3

\* The largest cap sample_frames_per_session the command line passes.
MaxCap == 2

-----------------------------------------------------------------------------
(* Python values. *)

None == <<>>

Some(x) == <<x>>

min(x, y) == IF y < x THEN y ELSE x

max(x, y) == IF y > x THEN y ELSE x

\* ord(c) of the characters that occur in addresses and session ids.
ord(c) ==
    CASE c = " " -> 32 [] c = "-" -> 45 [] c = "." -> 46
      [] c = "0" -> 48 [] c = "1" -> 49 [] c = "2" -> 50 [] c = "3" -> 51
      [] c = "4" -> 52 [] c = "5" -> 53 [] c = "6" -> 54 [] c = "7" -> 55
      [] c = "8" -> 56 [] c = "9" -> 57 [] c = ":" -> 58 [] c = ">" -> 62
      [] c = "a" -> 97 [] c = "b" -> 98 [] c = "c" -> 99 [] c = "d" -> 100
      [] c = "e" -> 101 [] c = "f" -> 102

\* s < t for two str: lexicographic by code point.
RECURSIVE StrLess(_, _)
StrLess(s, t) ==
    IF t = "" THEN FALSE
    ELSE IF s = "" THEN TRUE
    ELSE IF Head(s) = Head(t)
         THEN StrLess(SubSeq(s, 2, Len(s)), SubSeq(t, 2, Len(t)))
         ELSE ord(Head(s)) < ord(Head(t))

Whitespace == {" ", "\t"}

RECURSIVE lstrip(_)
lstrip(s) ==
    IF s # "" /\ Head(s) \in Whitespace
    THEN lstrip(SubSeq(s, 2, Len(s)))
    ELSE s

RECURSIVE rstrip(_)
rstrip(s) ==
    IF s # "" /\ SubSeq(s, Len(s), Len(s)) \in Whitespace
    THEN rstrip(SubSeq(s, 1, Len(s) - 1))
    ELSE s

\* str.strip()
strip(s) == rstrip(lstrip(s))

Digits == {"0", "1", "2", "3", "4", "5", "6", "7", "8", "9"}

DigitValue(c) == ord(c) - 48

IsDigits(s) == s # "" /\ \A i \in 1..Len(s) : SubSeq(s, i, i) \in Digits

RECURSIVE DigitsValue(_)
DigitsValue(s) ==
    IF s = "" THEN 0
    ELSE DigitsValue(SubSeq(s, 1, Len(s) - 1)) * 10
         + DigitValue(SubSeq(s, Len(s), Len(s)))

\* int(s) of a stripped, non-empty text: Some(n) for an optional sign and
\* decimal digits, None where int raises ValueError.
int(s) ==
    IF Head(s) \in {"+", "-"}
    THEN LET d == SubSeq(s, 2, Len(s))
         IN  IF IsDigits(d)
             THEN Some(IF Head(s) = "-" THEN 0 - DigitsValue(d) ELSE DigitsValue(d))
             ELSE None
    ELSE IF IsDigits(s) THEN Some(DigitsValue(s)) ELSE None

\* float(s) of a stripped, non-empty text, on whole seconds.
float(s) == int(s)

_safe_int(value) ==
    IF value = None THEN None
    ELSE LET v == strip(value[1])
         IN  IF v = "" THEN None ELSE int(v)

_safe_float(value) ==
    IF value = None THEN None
    ELSE LET v == strip(value[1])
         IN  IF v = "" THEN None ELSE float(v)

\* str(x) of an Optional[int], as an f-string formats it.
str(x) == IF x = None THEN "None" ELSE ToString(x[1])

\* x or y, for two Optional[str]: x when it is truthy.
or(x, y) == IF x # None /\ x[1] # "" THEN x ELSE y

\* (x or ""), then the str it leaves.
or_empty(x) == IF x # None /\ x[1] # "" THEN x[1] ELSE ""

-----------------------------------------------------------------------------
(* Flow key canonicalization. *)

_canonical_endpoint(ip, port) == <<ip, IF port = None THEN -1 ELSE port[1]>>

\* a <= b for two (str, int) tuples.
TupleLeq(a, b) ==
    \/ StrLess(a[1], b[1])
    \/ a[1] = b[1] /\ a[2] <= b[2]

\* _canonical_pair without the comparison: the endpoints in the row's order.
_canonical_pair_as_given(src_ip, src_port, dst_ip, dst_port) ==
    <<[ip |-> src_ip, port |-> src_port], [ip |-> dst_ip, port |-> dst_port]>>

_canonical_pair(src_ip, src_port, dst_ip, dst_port) ==
    LET a == _canonical_endpoint(src_ip, src_port)
        b == _canonical_endpoint(dst_ip, dst_port)
    IN  IF TupleLeq(a, b)
        THEN <<[ip |-> src_ip, port |-> src_port], [ip |-> dst_ip, port |-> dst_port]>>
        ELSE <<[ip |-> dst_ip, port |-> dst_port], [ip |-> src_ip, port |-> src_port]>>

\* f"{transport}:{a['ip']}:{a['port']}->{b['ip']}:{b['port']}"
\* a session key without the transport in it
SessionKeyOneTransport(transport, a, b) ==
    "tcp" \o ":" \o a.ip \o ":" \o str(a.port) \o "->"
          \o b.ip \o ":" \o str(b.port)

SessionKey(transport, a, b) ==
    transport \o ":" \o a.ip \o ":" \o str(a.port) \o "->"
              \o b.ip \o ":" \o str(b.port)

\* hashlib.sha1(key).hexdigest()[:12] for the session keys of the model.
Sha1Hex12 ==
       ("other:10.0.0.1:51000->10.0.0.2:443" :> "9b951fcdaf01")
    @@ ("other:10.0.0.1:51000->10.0.0.2:53" :> "be30e6cef40e")
    @@ ("other:10.0.0.1:None->10.0.0.2:443" :> "a2862bd356cc")
    @@ ("other:10.0.0.1:None->10.0.0.2:None" :> "de1cd13891a2")
    @@ ("other:10.0.0.1:None->:None" :> "bb49d75d7772")
    @@ ("other:10.0.0.2:443->10.0.0.1:51000" :> "e475fe0bea68")
    @@ ("other:10.0.0.2:443->10.0.0.1:None" :> "7748890a1e7e")
    @@ ("other:10.0.0.2:443->:51000" :> "e8cb926260c9")
    @@ ("other:10.0.0.2:53->10.0.0.1:51000" :> "6bf162fbfd29")
    @@ ("other:10.0.0.2:None->10.0.0.1:None" :> "b26fbf94c088")
    @@ ("other:10.0.0.2:None->:None" :> "9be75e456edf")
    @@ ("other::51000->10.0.0.2:443" :> "895d5ba13974")
    @@ ("other::None->10.0.0.1:None" :> "40b9eedd46d9")
    @@ ("other::None->10.0.0.2:None" :> "dd11df71dbaf")
    @@ ("other:fe80::1:53->fe80::1:None" :> "f746d2dc8669")
    @@ ("other:fe80::1:None->fe80::1:53" :> "9a23c1c932d5")
    @@ ("other:fe80::1:None->fe80::1:None" :> "58967aee4f67")
    @@ ("tcp:10.0.0.1:51000->10.0.0.2:443" :> "d69dfa86d4b1")
    @@ ("tcp:10.0.0.1:51000->10.0.0.2:53" :> "cec76ac3d971")
    @@ ("tcp:10.0.0.1:None->10.0.0.2:443" :> "bbe07099ffab")
    @@ ("tcp:10.0.0.1:None->10.0.0.2:None" :> "8bfb69adbf2d")
    @@ ("tcp:10.0.0.1:None->:None" :> "72c4e5a3d96c")
    @@ ("tcp:10.0.0.2:443->10.0.0.1:51000" :> "859bab9d6d98")
    @@ ("tcp:10.0.0.2:443->10.0.0.1:None" :> "fdb26f6a8394")
    @@ ("tcp:10.0.0.2:443->:51000" :> "fff0b0f55404")
    @@ ("tcp:10.0.0.2:53->10.0.0.1:51000" :> "12b5002babcf")
    @@ ("tcp:10.0.0.2:None->10.0.0.1:None" :> "c7d1fee3620e")
    @@ ("tcp:10.0.0.2:None->:None" :> "e4e05b7cbe33")
    @@ ("tcp::51000->10.0.0.2:443" :> "3aa026d9b71c")
    @@ ("tcp::None->10.0.0.1:None" :> "62a8d03221c9")
    @@ ("tcp::None->10.0.0.2:None" :> "be68d2389792")
    @@ ("tcp:fe80::1:53->fe80::1:None" :> "f87a099ca7b6")
    @@ ("tcp:fe80::1:None->fe80::1:53" :> "eb78b38bd6e8")
    @@ ("tcp:fe80::1:None->fe80::1:None" :> "0e979117b4f1")
    @@ ("udp:10.0.0.1:51000->10.0.0.2:443" :> "1becc5b994f2")
    @@ ("udp:10.0.0.1:51000->10.0.0.2:53" :> "c69118ae82fd")
    @@ ("udp:10.0.0.1:None->10.0.0.2:443" :> "a19a3566f489")
    @@ ("udp:10.0.0.1:None->10.0.0.2:None" :> "4533ff4a4028")
    @@ ("udp:10.0.0.1:None->:None" :> "57ec9cadd73d")
    @@ ("udp:10.0.0.2:443->10.0.0.1:51000" :> "9d5782c6e1a2")
    @@ ("udp:10.0.0.2:443->10.0.0.1:None" :> "83d87c548947")
    @@ ("udp:10.0.0.2:443->:51000" :> "fcab3860d70a")
    @@ ("udp:10.0.0.2:53->10.0.0.1:51000" :> "85514f81ec41")
    @@ ("udp:10.0.0.2:None->10.0.0.1:None" :> "3105a50a2d71")
    @@ ("udp:10.0.0.2:None->:None" :> "5f2368cd71b0")
    @@ ("udp::51000->10.0.0.2:443" :> "51378e9c7749")
    @@ ("udp::None->10.0.0.1:None" :> "cccaa5f57678")
    @@ ("udp::None->10.0.0.2:None" :> "6bcdd7a5d302")
    @@ ("udp:fe80::1:53->fe80::1:None" :> "08b49439c002")
    @@ ("udp:fe80::1:None->fe80::1:53" :> "c8661bb4a54e")
    @@ ("udp:fe80::1:None->fe80::1:None" :> "0bab40eb8c4d")

SessionId(session_key) == Sha1Hex12[session_key]

-----------------------------------------------------------------------------
(* The rows csv.DictReader yields: each field is Some(text), or None where *)
(* the line was shorter than the header.                                   *)

Blank ==
    [frame_number |-> Some(""), time_epoch |-> Some(""), frame_len |-> Some(""),
     ip_src |-> Some(""), ip_dst |-> Some(""),
     ipv6_src |-> Some(""), ipv6_dst |-> Some(""),
     tcp_srcport |-> Some(""), tcp_dstport |-> Some(""),
     udp_srcport |-> Some(""), udp_dstport |-> Some(""),
     protocols |-> Some(""), dns_qry_name |-> Some(""),
     http_method |-> Some(""), http_host |-> Some(""), http_uri |-> Some(""),
     tls_sni |-> Some("")]

RowTable == <<
    \* 1: tcp, client to server, late in time
    [Blank EXCEPT !.frame_number = Some("2"), !.time_epoch = Some("60"),
        !.frame_len = Some("60"),
        !.ip_src = Some("10.0.0.1"), !.ip_dst = Some("10.0.0.2"),
        !.tcp_srcport = Some("51000"), !.tcp_dstport = Some("443"),
        !.protocols = Some("eth:ip:tcp")],
    \* 2: the same conversation, server to client, earlier, no length
    [Blank EXCEPT !.frame_number = Some("1"), !.time_epoch = Some("0"),
        !.ip_src = Some("10.0.0.2"), !.ip_dst = Some("10.0.0.1"),
        !.tcp_srcport = Some("443"), !.tcp_dstport = Some("51000"),
        !.protocols = Some("eth:ip:tcp:tls"), !.tls_sni = Some("example.com")],
    \* 3: udp between the endpoints of row 1, with a DNS query
    [Blank EXCEPT !.frame_number = Some("3"), !.time_epoch = Some("0"),
        !.frame_len = Some("80"),
        !.ip_src = Some("10.0.0.1"), !.ip_dst = Some("10.0.0.2"),
        !.udp_srcport = Some("51000"), !.udp_dstport = Some("443"),
        !.protocols = Some("eth:ip:udp:dns"),
        !.dns_qry_name = Some("example.com")],
    \* 4: neither tcp nor udp
    [Blank EXCEPT !.frame_number = Some("4"), !.time_epoch = Some("60"),
        !.frame_len = Some("40"),
        !.ip_src = Some("10.0.0.1"), !.ip_dst = Some("10.0.0.2"),
        !.protocols = Some("eth:ip:icmp")],
    \* 5: tcp and udp ports both present, and all three observations
    [Blank EXCEPT !.frame_number = Some("5"), !.time_epoch = Some("30"),
        !.frame_len = Some("60"),
        !.ip_src = Some("10.0.0.1"), !.ip_dst = Some("10.0.0.2"),
        !.tcp_srcport = Some("51000"), !.tcp_dstport = Some("443"),
        !.udp_srcport = Some("51000"), !.udp_dstport = Some("53"),
        !.protocols = Some("eth:ip:tcp"),
        !.dns_qry_name = Some("a.example"), !.http_method = Some("GET"),
        !.http_host = Some("example.com"), !.http_uri = Some("/"),
        !.tls_sni = Some("example.com")],
    \* 6: tcp with the source port alone, padded frame number, HTTP by URI
    [Blank EXCEPT !.frame_number = Some(" 6 "), !.time_epoch = Some("60"),
        !.frame_len = Some("20"),
        !.ip_src = Some("10.0.0.2"), !.ip_dst = Some("10.0.0.1"),
        !.tcp_srcport = Some("443"),
        !.http_method = Some("GET"), !.http_uri = Some("/x")],
    \* 7: IPv6, one host to itself, udp with the destination port alone
    [Blank EXCEPT !.frame_number = Some("7"), !.time_epoch = Some("0"),
        !.frame_len = Some("80"),
        !.ipv6_src = Some("fe80::1"), !.ipv6_dst = Some("fe80::1"),
        !.udp_dstport = Some("53"),
        !.protocols = Some("eth:ipv6:udp:dns"),
        !.dns_qry_name = Some("example.com")],
    \* 8: an HTTP host without a method, no protocol chain
    [Blank EXCEPT !.frame_number = Some("8"), !.time_epoch = Some("30"),
        !.frame_len = Some("60"),
        !.ip_src = Some("10.0.0.1"), !.ip_dst = Some("10.0.0.2"),
        !.tcp_srcport = Some("51000"), !.tcp_dstport = Some("443"),
        !.http_host = Some("example.com")],
    \* 9: the frame number does not parse
    [Blank EXCEPT !.frame_number = Some("x"), !.time_epoch = Some("0"),
        !.frame_len = Some("80"),
        !.ip_src = Some("10.0.0.1"), !.ip_dst = Some("10.0.0.2"),
        !.udp_srcport = Some("51000"), !.udp_dstport = Some("53"),
        !.protocols = Some("eth:ip:udp:dns"),
        !.dns_qry_name = Some("example.com")],
    \* 10: no timestamp
    [Blank EXCEPT !.frame_number = Some("9"),
        !.frame_len = Some("60"),
        !.ip_src = Some("10.0.0.1"), !.ip_dst = Some("10.0.0.2"),
        !.tcp_srcport = Some("51000"), !.tcp_dstport = Some("443"),
        !.protocols = Some("eth:ip:tcp"), !.tls_sni = Some("example.com")],
    \* 11: no source address, later than every other row
    [Blank EXCEPT !.frame_number = Some("10"), !.time_epoch = Some("90"),
        !.frame_len = Some("60"),
        !.ip_dst = Some("10.0.0.2"),
        !.tcp_srcport = Some("51000"), !.tcp_dstport = Some("443"),
        !.protocols = Some("eth:ip:tcp"),
        !.dns_qry_name = Some("example.com")],
    \* 12: a line cut short after ip.src: every later field is None
    [frame_number |-> Some("11"), time_epoch |-> Some("90"),
     frame_len |-> Some("60"),
     ip_src |-> Some("10.0.0.1"), ip_dst |-> None,
     ipv6_src |-> None, ipv6_dst |-> None,
     tcp_srcport |-> None, tcp_dstport |-> None,
     udp_srcport |-> None, udp_dstport |-> None,
     protocols |-> None, dns_qry_name |-> None,
     http_method |-> None, http_host |-> None, http_uri |-> None,
     tls_sni |-> None] >>

RowNumbers == 1..Len(RowTable)

\* The command line's --sample-frames-per-session: argparse takes any int.
Caps == -1..MaxCap

-----------------------------------------------------------------------------
(* The body of the loop over the rows. *)

\* packet_count += 1
CountRow(st) == [st EXCEPT !.packet_count = @ + 1]

\* the first continue
NoFrameOrTime(frame_no, ts) == frame_no = None \/ ts = None

\* the capture's time bounds
TrackBounds(st, ts) ==
    [st EXCEPT !.first_ts = IF @ = None THEN Some(ts) ELSE Some(min(@[1], ts)),
               !.last_ts = IF @ = None THEN Some(ts) ELSE Some(max(@[1], ts))]

SrcIp(row) == strip(or_empty(or(row.ip_src, row.ipv6_src)))

DstIp(row) == strip(or_empty(or(row.ip_dst, row.ipv6_dst)))

\* the second continue
\* the address test with "and" for "or"
NoAddressAtAll(src_ip, dst_ip) == src_ip = "" /\ dst_ip = ""

NoAddress(src_ip, dst_ip) == src_ip = "" \/ dst_ip = ""

\* transport and ports with the UDP ports looked at first
TransportUdpFirst(row) ==
    LET tcp_src == _safe_int(row.tcp_srcport)
        tcp_dst == _safe_int(row.tcp_dstport)
        udp_src == _safe_int(row.udp_srcport)
        udp_dst == _safe_int(row.udp_dstport)
    IN  IF udp_src # None \/ udp_dst # None
        THEN [transport |-> "udp", src_port |-> udp_src, dst_port |-> udp_dst]
        ELSE IF tcp_src # None \/ tcp_dst # None
        THEN [transport |-> "tcp", src_port |-> tcp_src, dst_port |-> tcp_dst]
        ELSE [transport |-> "other", src_port |-> None, dst_port |-> None]

\* transport and ports of a row
Transport(row) ==
    LET tcp_src == _safe_int(row.tcp_srcport)
        tcp_dst == _safe_int(row.tcp_dstport)
        udp_src == _safe_int(row.udp_srcport)
        udp_dst == _safe_int(row.udp_dstport)
    IN  IF tcp_src # None \/ tcp_dst # None
        THEN [transport |-> "tcp", src_port |-> tcp_src, dst_port |-> tcp_dst]
        ELSE IF udp_src # None \/ udp_dst # None
        THEN [transport |-> "udp", src_port |-> udp_src, dst_port |-> udp_dst]
        ELSE [transport |-> "other", src_port |-> None, dst_port |-> None]

\* sessions.get(session_key): the item's index, 0 for None
\* a lookup that never finds the key
LookupNothing(items, session_key) == 0

Lookup(items, session_key) ==
    IF \E i \in 1..Len(items) : items[i].key = session_key
    THEN CHOOSE i \in 1..Len(items) : items[i].key = session_key
    ELSE 0

\* a session that has a duration from its creation
NewSessionWithDuration(session_id, transport, a, b, ts, frame_no) ==
    [id |-> session_id,
     transport |-> transport,
     endpoints |-> [a |-> a, b |-> b],
     first_ts |-> ts,
     last_ts |-> ts,
     packet_count |-> 0,
     byte_count |-> 0,
     protocol_chains |-> <<>>,
     evidence |-> [first_frame |-> frame_no, last_frame |-> frame_no,
                   sample_frames |-> <<>>],
     observations |-> [dns_queries |-> <<>>, http_requests |-> <<>>,
                       tls_sni |-> <<>>],
     rule_flags |-> <<>>,
     duration_seconds |-> 0]

NewSession(session_id, transport, a, b, ts, frame_no) ==
    [id |-> session_id,
     transport |-> transport,
     endpoints |-> [a |-> a, b |-> b],
     first_ts |-> ts,
     last_ts |-> ts,
     packet_count |-> 0,
     byte_count |-> 0,
     protocol_chains |-> <<>>,
     evidence |-> [first_frame |-> frame_no, last_frame |-> frame_no,
                   sample_frames |-> <<>>],
     observations |-> [dns_queries |-> <<>>, http_requests |-> <<>>,
                       tls_sni |-> <<>>],
     rule_flags |-> <<>>]

\* a sample list that keeps the latest frames
SampleFramesLatest(sample_frames, frame_no, c) ==
    IF Len(sample_frames) < c THEN Append(sample_frames, frame_no)
    ELSE IF c > 0 THEN Append(Tail(sample_frames), frame_no)
    ELSE sample_frames

\* the bounded sample list with <= for <: one frame too many
SampleFramesOffByOne(sample_frames, frame_no, c) ==
    IF Len(sample_frames) <= c THEN Append(sample_frames, frame_no)
    ELSE sample_frames

\* the bounded sample list
SampleFrames(sample_frames, frame_no, c) ==
    IF Len(sample_frames) < c THEN Append(sample_frames, frame_no)
    ELSE sample_frames

\* the session's time bounds
\* the time bounds of a stream taken to arrive in time order
TimeBoundsInOrder(s, ts) == [s EXCEPT !.last_ts = ts]

\* the time bounds with the first timestamp overwritten by each row
TimeBoundsLatestFirst(s, ts) ==
    [s EXCEPT !.first_ts = ts, !.last_ts = max(@, ts)]

TimeBounds(s, ts) ==
    [s EXCEPT !.first_ts = min(@, ts), !.last_ts = max(@, ts)]

\* the fold of a stream taken to arrive in frame order
FoldFramesInOrder(s, ts, frame_no, frame_len, c) ==
    LET counted == [s EXCEPT
            !.packet_count = @ + 1,
            !.byte_count = @ + (IF frame_len = None THEN 0 ELSE frame_len[1])]
        timed == TimeBounds(counted, ts)
    IN  [timed EXCEPT
            !.evidence.last_frame = frame_no,
            !.evidence.sample_frames = SampleFrames(@, frame_no, c)]

\* counters, bounds and the sample
Fold(s, ts, frame_no, frame_len, c) ==
    LET counted == [s EXCEPT
            !.packet_count = @ + 1,
            !.byte_count = @ + (IF frame_len = None THEN 0 ELSE frame_len[1])]
        timed == TimeBounds(counted, ts)
    IN  [timed EXCEPT
            !.evidence.first_frame = min(@, frame_no),
            !.evidence.last_frame = max(@, frame_no),
            !.evidence.sample_frames = SampleFrames(@, frame_no, c)]

\* the histogram of protocol chains
Chain(s, row) ==
    LET chain == strip(or_empty(row.protocols))
    IN  IF chain = "" THEN s
        ELSE IF chain \in DOMAIN s.protocol_chains
        THEN [s EXCEPT !.protocol_chains[chain] = @ + 1]
        ELSE [s EXCEPT !.protocol_chains = @ @@ (chain :> 1)]

TimelineEvent(ts, session_id, kind, summary, evidence_frame) ==
    [ts |-> ts, session_id |-> session_id, kind |-> kind,
     summary |-> summary, evidence_frame |-> evidence_frame]

\* se is <<session, events>>
\* a DNS observation recorded without its event
DnsUnpaired(se, row, ts, session_id, frame_no) ==
    LET dns_qry == strip(or_empty(row.dns_qry_name))
    IN  IF dns_qry = "" THEN se
        ELSE << [se[1] EXCEPT !.observations.dns_queries =
                    Append(@, [name |-> dns_qry, ts |-> ts,
                               evidence_frame |-> frame_no])],
                se[2] >>

Dns(se, row, ts, session_id, frame_no) ==
    LET dns_qry == strip(or_empty(row.dns_qry_name))
    IN  IF dns_qry = "" THEN se
        ELSE << [se[1] EXCEPT !.observations.dns_queries =
                    Append(@, [name |-> dns_qry, ts |-> ts,
                               evidence_frame |-> frame_no])],
                Append(se[2], TimelineEvent(ts, session_id, "dns_query",
                                  "DNS query: " \o dns_qry, frame_no)) >>

\* an HTTP observation for a host or URI, with or without a method
HttpWithoutMethod(se, row, ts, session_id, frame_no) ==
    LET http_method == strip(or_empty(row.http_method))
        http_host == strip(or_empty(row.http_host))
        http_uri == strip(or_empty(row.http_uri))
    IN  IF http_host # "" \/ http_uri # ""
        THEN << [se[1] EXCEPT !.observations.http_requests =
                    Append(@, [method |-> http_method,
                               host |-> IF http_host # "" THEN Some(http_host) ELSE None,
                               uri |-> IF http_uri # "" THEN Some(http_uri) ELSE None,
                               ts |-> ts, evidence_frame |-> frame_no])],
                Append(se[2], TimelineEvent(ts, session_id, "http_request",
                    "HTTP request: " \o http_method \o " " \o http_host \o http_uri,
                    frame_no)) >>
        ELSE se

Http(se, row, ts, session_id, frame_no) ==
    LET http_method == strip(or_empty(row.http_method))
        http_host == strip(or_empty(row.http_host))
        http_uri == strip(or_empty(row.http_uri))
    IN  IF http_method # "" /\ (http_host # "" \/ http_uri # "")
        THEN << [se[1] EXCEPT !.observations.http_requests =
                    Append(@, [method |-> http_method,
                               host |-> IF http_host # "" THEN Some(http_host) ELSE None,
                               uri |-> IF http_uri # "" THEN Some(http_uri) ELSE None,
                               ts |-> ts, evidence_frame |-> frame_no])],
                Append(se[2], TimelineEvent(ts, session_id, "http_request",
                    "HTTP request: " \o http_method \o " " \o http_host \o http_uri,
                    frame_no)) >>
        ELSE se

Sni(se, row, ts, session_id, frame_no) ==
    LET sni == strip(or_empty(row.tls_sni))
    IN  IF sni = "" THEN se
        ELSE << [se[1] EXCEPT !.observations.tls_sni =
                    Append(@, [server_name |-> sni, ts |-> ts,
                               evidence_frame |-> frame_no])],
                Append(se[2], TimelineEvent(ts, session_id, "tls_sni",
                                  "TLS SNI: " \o sni, frame_no)) >>

\* The rest of the body for a row with frame number, time and addresses;
\* t is the row's transport and ports.
Ingest(st, row, frame_no, ts, frame_len, src_ip, dst_ip, t, c) ==
    LET ab == _canonical_pair(src_ip, t.src_port, dst_ip, t.dst_port)
        session_key == SessionKey(t.transport, ab[1], ab[2])
        session_id == SessionId(session_key)
        i == Lookup(st.sessions, session_key)
        session == IF i = 0
                   THEN NewSession(session_id, t.transport, ab[1], ab[2], ts, frame_no)
                   ELSE st.sessions[i].value
        folded == Chain(Fold(session, ts, frame_no, frame_len, c), row)
        se == Sni(Http(Dns(<<folded, st.events>>, row, ts, session_id, frame_no),
                       row, ts, session_id, frame_no),
                  row, ts, session_id, frame_no)
        item == [key |-> session_key, value |-> se[1]]
    IN  [st EXCEPT
            !.sessions = IF i = 0 THEN Append(@, item) ELSE [@ EXCEPT ![i] = item],
            !.events = se[2]]

\* A row with frame number and time: the capture's bounds, then the
\* second continue.
Timed(st, row, frame_no, ts, src_ip, dst_ip, c) ==
    IF NoAddress(src_ip, dst_ip) THEN st
    ELSE Ingest(st, row, frame_no, ts, _safe_int(row.frame_len),
                src_ip, dst_ip, Transport(row), c)

\* A counted row: the first continue.
\* the loop body tracking the capture's bounds after the address test
CountedBoundsAfterAddress(st, row, frame_no, ts, c) ==
    IF NoFrameOrTime(frame_no, ts) THEN st
    ELSE IF NoAddress(SrcIp(row), DstIp(row)) THEN st
    ELSE Timed(TrackBounds(st, ts[1]), row, frame_no[1], ts[1],
               SrcIp(row), DstIp(row), c)

\* the loop body counting a row only once its frame number and timestamp
\* have parsed
CountedAfterContinue(st, row, frame_no, ts, c) ==
    IF NoFrameOrTime(frame_no, ts) THEN [st EXCEPT !.packet_count = @ - 1]
    ELSE Timed(TrackBounds(st, ts[1]), row, frame_no[1], ts[1],
               SrcIp(row), DstIp(row), c)

Counted(st, row, frame_no, ts, c) ==
    IF NoFrameOrTime(frame_no, ts) THEN st
    ELSE Timed(TrackBounds(st, ts[1]), row, frame_no[1], ts[1],
               SrcIp(row), DstIp(row), c)

\* One iteration: st is the loop's state, c the cap.
LoopBody(st, row, c) ==
    Counted(CountRow(st), row, _safe_int(row.frame_number),
            _safe_float(row.time_epoch), c)

\* the loop's state before the first row
EmptySt ==
    [sessions |-> <<>>, events |-> <<>>, packet_count |-> 0,
     first_ts |-> None, last_ts |-> None]

\* the loop run over the rows numbered ns, in that order
LoopOver(ns, c) ==
    LET run[k \in 0..Len(ns)] ==
            IF k = 0 THEN EmptySt
            ELSE LoopBody(run[k - 1], RowTable[ns[k]], c)
    IN  run[Len(ns)]

-----------------------------------------------------------------------------
(* After the loop: the rule engine, the two sorts and the artifact. *)

SCHEMA_VERSION == 1

ManyPacketsThreshold == 1000

LongDurationThreshold == 60

LargeBytesThreshold == 10 * 1024 * 1024

\* flags, in the order the rules append them
\* the rules with strict comparisons
RuleFlagsStrict(s, duration) ==
    (IF s.packet_count > ManyPacketsThreshold THEN <<"many_packets">> ELSE <<>>)
    \o (IF duration > LongDurationThreshold THEN <<"long_duration">> ELSE <<>>)
    \o (IF s.byte_count > LargeBytesThreshold THEN <<"large_bytes">> ELSE <<>>)
    \o (IF s.transport = "other" THEN <<"non_tcp_udp">> ELSE <<>>)

RuleFlags(s, duration) ==
    (IF s.packet_count >= ManyPacketsThreshold THEN <<"many_packets">> ELSE <<>>)
    \o (IF duration >= LongDurationThreshold THEN <<"long_duration">> ELSE <<>>)
    \o (IF s.byte_count >= LargeBytesThreshold THEN <<"large_bytes">> ELSE <<>>)
    \o (IF s.transport = "other" THEN <<"non_tcp_udp">> ELSE <<>>)

\* one pass of the loop over session_list
Finalize(s) ==
    LET duration == s.last_ts - s.first_ts
    IN  [s EXCEPT !.rule_flags = RuleFlags(s, duration)]
        @@ [duration_seconds |-> duration]

\* sorted(list, key=...), stable: less[i][j] says that the key of list[i]
\* is less than the key of list[j].  Each element in turn is put after
\* every element placed before it whose key is not greater.
sorted(list, less) ==
    LET n == Len(list)
        order[k \in 0..n] ==
            IF k = 0 THEN <<>>
            ELSE LET placed == order[k - 1]
                     greater == {j \in 1..Len(placed) : less[k][placed[j]]}
                     p == IF greater = {} THEN Len(placed) + 1
                          ELSE CHOOSE j \in greater : \A m \in greater : j <= m
                 IN  SubSeq(placed, 1, p - 1) \o <<k>>
                     \o SubSeq(placed, p, Len(placed))
    IN  [i \in 1..n |-> list[order[n][i]]]

\* a key comparison that also holds of equal timestamps
EventKeyLessOrEqual(e, f) == e.ts <= f.ts

\* key=lambda e: e.ts
EventKeyLess(e, f) == e.ts < f.ts

\* the session key without the id
SessionKeyLessByTime(s, t) == s.first_ts < t.first_ts

\* key=lambda s: (s["first_ts"], s["id"])
SessionKeyLess(s, t) ==
    \/ s.first_ts < t.first_ts
    \/ s.first_ts = t.first_ts /\ StrLess(s.id, t.id)

\* sorted(events, key=lambda e: e.ts)
Timeline(list) ==
    sorted(list, [i \in 1..Len(list) |->
                    [j \in 1..Len(list) |-> EventKeyLess(list[i], list[j])]])

\* sorted(session_list, key=lambda s: (s["first_ts"], s["id"]))
SortedSessions(list) ==
    sorted(list, [i \in 1..Len(list) |->
                    [j \in 1..Len(list) |-> SessionKeyLess(list[i], list[j])]])

\* list(sessions.values()) after the finalization loop
FinalizedList(items) == [i \in 1..Len(items) |-> Finalize(items[i].value)]

\* the artifact, without the provenance read from the file system and clock
Artifact(st) ==
    [schema_version |-> SCHEMA_VERSION,
     pcap |-> [packets_analyzed |-> st.packet_count,
               first_ts |-> st.first_ts,
               last_ts |-> st.last_ts],
     sessions |-> SortedSessions(FinalizedList(st.sessions)),
     timeline |-> Timeline(st.events)]

-----------------------------------------------------------------------------
(* The state machine. *)

St == [sessions |-> sessions, events |-> events, packet_count |-> packet_count,
       first_ts |-> first_ts, last_ts |-> last_ts]

Init ==
    /\ pcap_is_file \in BOOLEAN
    /\ tshark_found \in BOOLEAN
    /\ cap \in Caps
    /\ pc = "start"
    /\ rows_read = <<>>
    /\ sessions = <<>>
    /\ events = <<>>
    /\ packet_count = 0
    /\ first_ts = None
    /\ last_ts = None
    /\ artifact = None
    /\ written = None

\* raise FileNotFoundError(f"PCAP not found: ...")
InputNotFound ==
    /\ pc = "start"
    /\ ~pcap_is_file
    /\ pc' = "pcap_not_found"
    /\ UNCHANGED <<pcap_is_file, tshark_found, cap, rows_read, sessions, events,
                   packet_count, first_ts, last_ts, artifact, written>>

\* _resolve_tshark raises FileNotFoundError
ToolUnresolved ==
    /\ pc = "start"
    /\ pcap_is_file
    /\ ~tshark_found
    /\ pc' = "tshark_not_found"
    /\ UNCHANGED <<pcap_is_file, tshark_found, cap, rows_read, sessions, events,
                   packet_count, first_ts, last_ts, artifact, written>>

\* the dissector is started and the loop's state is set up
Launch ==
    /\ pc = "start"
    /\ pcap_is_file
    /\ tshark_found
    /\ pc' = "reading"
    /\ sessions' = <<>>
    /\ events' = <<>>
    /\ packet_count' = 0
    /\ first_ts' = None
    /\ last_ts' = None
    /\ UNCHANGED <<pcap_is_file, tshark_found, cap, rows_read, artifact, written>>

\* one iteration of the loop on row number n
Read(n) ==
    /\ pc = "reading"
    /\ Len(rows_read) < MaxRecords
    /\ rows_read' = Append(rows_read, n)
    /\ \E st \in {LoopBody(St, RowTable[n], cap)} :
           /\ sessions' = st.sessions
           /\ events' = st.events
           /\ packet_count' = st.packet_count
           /\ first_ts' = st.first_ts
           /\ last_ts' = st.last_ts
    /\ UNCHANGED <<pcap_is_file, tshark_found, cap, pc, artifact, written>>

\* the rows the first continue drops
MalformedRows ==
    {n \in RowNumbers : NoFrameOrTime(_safe_int(RowTable[n].frame_number),
                                      _safe_float(RowTable[n].time_epoch))}

\* the rows the second continue drops
UnaddressedRows ==
    {n \in RowNumbers \ MalformedRows :
        NoAddress(SrcIp(RowTable[n]), DstIp(RowTable[n]))}

\* a row without a frame number or a timestamp
ReadMalformed == \E n \in MalformedRows : Read(n)

\* a row with frame number and timestamp, without a source or a destination
ReadUnaddressed == \E n \in UnaddressedRows : Read(n)

\* a row that is folded into a session
ReadAccepted == \E n \in RowNumbers \ (MalformedRows \cup UnaddressedRows) : Read(n)

\* a failure of the dissector that still hands out what was folded
ToolFailedPartial ==
    /\ pc = "reading"
    /\ pc' = "tshark_failed"
    /\ artifact' = Some(Artifact(St))
    /\ written' = Some(Artifact(St))
    /\ UNCHANGED <<pcap_is_file, tshark_found, cap, rows_read, sessions, events,
                   packet_count, first_ts, last_ts>>

\* the stream ended and the dissector exited with a code other than 0
ToolFailed ==
    /\ pc = "reading"
    /\ pc' = "tshark_failed"
    /\ UNCHANGED <<pcap_is_file, tshark_found, cap, rows_read, sessions, events,
                   packet_count, first_ts, last_ts, artifact, written>>

\* an end of run whose timeline may come out in either direction
FinishEitherWay ==
    /\ pc = "reading"
    /\ pc' = "done"
    /\ sessions' = [i \in 1..Len(sessions) |->
                       [sessions[i] EXCEPT !.value = Finalize(@)]]
    /\ \E a \in {Artifact(St),
                  [Artifact(St) EXCEPT !.timeline =
                      [i \in 1..Len(events) |->
                          Timeline(events)[Len(events) + 1 - i]]]} :
          artifact' = Some(a) /\ written' = Some(a)
    /\ UNCHANGED <<pcap_is_file, tshark_found, cap, rows_read, events,
                   packet_count, first_ts, last_ts>>

\* the stream ended and the dissector exited with 0: sessions are finalized
\* in place, the artifact is returned and _cmd_analyze writes it
Finish ==
    /\ pc = "reading"
    /\ pc' = "done"
    /\ sessions' = [i \in 1..Len(sessions) |->
                       [sessions[i] EXCEPT !.value = Finalize(@)]]
    /\ artifact' = Some(Artifact(St))
    /\ written' = Some(Artifact(St))
    /\ UNCHANGED <<pcap_is_file, tshark_found, cap, rows_read, events,
                   packet_count, first_ts, last_ts>>

Next ==
    \/ InputNotFound
    \/ ToolUnresolved
    \/ Launch
    \/ ReadMalformed
    \/ ReadUnaddressed
    \/ ReadAccepted
    \/ ToolFailed
    \/ Finish

Spec == Init /\ [][Next]_vars

-----------------------------------------------------------------------------
(* What the properties speak of. *)

\* the i-th row read
Row(i) == RowTable[rows_read[i]]

\* a field that is missing, empty or blank
Absent(field) == field = None \/ strip(field[1]) = ""

\* the row has no frame number that parses, no timestamp that parses, or
\* neither an IPv4 nor an IPv6 address on one side
LacksRequired(row) ==
    \/ _safe_int(row.frame_number) = None
    \/ _safe_float(row.time_epoch) = None
    \/ Absent(row.ip_src) /\ Absent(row.ipv6_src)
    \/ Absent(row.ip_dst) /\ Absent(row.ipv6_dst)

Droppable == {n \in RowNumbers : LacksRequired(RowTable[n])}

Acceptable == RowNumbers \ Droppable

\* transport, the two endpoints as a set, time and frame of an acceptable row
\* (f @@ <<>> is f, tabulated once by TLC instead of on each application)
FlowOf ==
    [n \in Acceptable |->
        [transport |-> Transport(RowTable[n]).transport,
         ends |-> {[ip |-> SrcIp(RowTable[n]),
                    port |-> Transport(RowTable[n]).src_port],
                   [ip |-> DstIp(RowTable[n]),
                    port |-> Transport(RowTable[n]).dst_port]},
         ts |-> _safe_float(RowTable[n].time_epoch)[1],
         frame_no |-> _safe_int(RowTable[n].frame_number)[1]]] @@ <<>>

\* the positions of the rows read that were acceptable
AcceptedAt == {i \in 1..Len(rows_read) : rows_read[i] \in Acceptable}

\* the positions of the rows read with the flow of the row at position i
SameFlowAt(i) ==
    {j \in AcceptedAt :
        /\ FlowOf[rows_read[j]].transport = FlowOf[rows_read[i]].transport
        /\ FlowOf[rows_read[j]].ends = FlowOf[rows_read[i]].ends}

\* the sessions of the dict, as a sequence of its values
Values == [i \in 1..Len(sessions) |-> sessions[i].value]

\* the row with source and destination exchanged
Mirror(row) ==
    [row EXCEPT !.ip_src = row.ip_dst, !.ip_dst = row.ip_src,
                !.ipv6_src = row.ipv6_dst, !.ipv6_dst = row.ipv6_src,
                !.tcp_srcport = row.tcp_dstport, !.tcp_dstport = row.tcp_srcport,
                !.udp_srcport = row.udp_dstport, !.udp_dstport = row.udp_srcport]

\* canonical pair, session key and session id the loop computes for a row
FlowId(row) ==
    LET ab == _canonical_pair(SrcIp(row), Transport(row).src_port,
                              DstIp(row), Transport(row).dst_port)
    IN  [a |-> ab[1], b |-> ab[2],
         key |-> SessionKey(Transport(row).transport, ab[1], ab[2]),
         id |-> SessionId(SessionKey(Transport(row).transport, ab[1], ab[2]))]

\* the same, for each acceptable row of the table
FlowIdOf == [n \in Acceptable |-> FlowId(RowTable[n])] @@ <<>>

MirrorSymmetric ==
    \A n \in Acceptable : FlowIdOf[n] = FlowId(Mirror(RowTable[n]))

-----------------------------------------------------------------------------
(* C1: flow identity is symmetric.  A row and the row with its two         *)
(* endpoints exchanged get the same canonical pair (a, b), the same        *)
(* session key and the same session id; so in every state all the rows     *)
(* read with one transport and one pair of endpoints, in either direction, *)
(* are folded into one and the same session.                               *)
C1_Symmetry ==
    /\ MirrorSymmetric
    /\ \A i \in AcceptedAt :
          \E k \in 1..Len(sessions) :
              /\ sessions[k].value.transport = FlowOf[rows_read[i]].transport
              /\ {sessions[k].value.endpoints.a, sessions[k].value.endpoints.b}
                    = FlowOf[rows_read[i]].ends
              /\ sessions[k].key = FlowIdOf[rows_read[i]].key
              /\ sessions[k].value.id = FlowIdOf[rows_read[i]].id
              /\ sessions[k].value.packet_count = Cardinality(SameFlowAt(i))
              /\ \A m \in 1..Len(sessions) :
                    sessions[m].value.id = sessions[k].value.id => m = k

\* Two rows of one conversation in opposite directions were read, and one
\* session holds both.
C1_Witness ==
    /\ Len(sessions) = 1
    /\ sessions[1].value.packet_count = 2
    /\ \E i, j \in AcceptedAt :
          /\ SrcIp(Row(i)) = DstIp(Row(j))
          /\ DstIp(Row(i)) = SrcIp(Row(j))
          /\ SrcIp(Row(i)) # DstIp(Row(i))
          /\ Transport(Row(i)).src_port = Transport(Row(j)).dst_port
          /\ Transport(Row(i)).dst_port = Transport(Row(j)).src_port
          /\ Transport(Row(i)).src_port # None

-----------------------------------------------------------------------------
(* C2: the evidence sample is bounded by the cap.  As stated, for every    *)
(* session, in the loop and in the artifact, the length of sample_frames   *)
(* is at most sample_frames_per_session.                                   *)
C2_SampleAtMostCap ==
    /\ \A k \in 1..Len(sessions) :
          Len(sessions[k].value.evidence.sample_frames) <= cap
    /\ artifact # None =>
          \A k \in 1..Len(artifact[1].sessions) :
              Len(artifact[1].sessions[k].evidence.sample_frames) <= cap

(* C2, amended: the length of sample_frames is at most the cap when the    *)
(* cap is zero or more, and the list is empty when the cap is negative,    *)
(* whatever the number of rows folded into the session.                    *)
C2_SampleAtMostCapOrEmpty ==
    /\ \A k \in 1..Len(sessions) :
          Len(sessions[k].value.evidence.sample_frames) <= max(cap, 0)
    /\ artifact # None =>
          \A k \in 1..Len(artifact[1].sessions) :
              Len(artifact[1].sessions[k].evidence.sample_frames) <= max(cap, 0)

\* The artifact holds a session with more rows than the cap, sampled to
\* exactly the cap.
C2_Witness ==
    /\ pc = "done"
    /\ cap > 0
    /\ \E k \in 1..Len(artifact[1].sessions) :
          /\ artifact[1].sessions[k].packet_count > cap
          /\ Len(artifact[1].sessions[k].evidence.sample_frames) = cap

-----------------------------------------------------------------------------
(* C3: the aggregates do not depend on the arrival order.  When a run     *)
(* ends, packet_count, byte_count, first_ts, last_ts and rule_flags of  *)
(* every session key are those of the run that reads the same rows in      *)
(* ascending row order; every arrival order of the rows is a run, so any   *)
(* two arrival orders of the same rows agree.                              *)
Aggregate(key, s) ==
    [key |-> key, packet_count |-> s.packet_count, byte_count |-> s.byte_count,
     first_ts |-> s.first_ts, last_ts |-> s.last_ts, rule_flags |-> s.rule_flags]

InRowOrder(ns) == SortSeq(ns, LAMBDA m, n : m < n)

\* the finalized aggregates of the run over the rows ns with cap c
AggregatesOf(ns, c) ==
    {Aggregate(item.key, Finalize(item.value)) :
        item \in {LoopOver(ns, c).sessions[i] :
                    i \in 1..Len(LoopOver(ns, c).sessions)}}

C3_OrderIndependent ==
    [][pc = "reading" /\ pc' = "done" =>
          \E inRowOrder \in {AggregatesOf(InRowOrder(rows_read), cap)} :
              /\ Cardinality(inRowOrder) = Len(sessions')
              /\ {Aggregate(sessions'[i].key, sessions'[i].value) :
                      i \in 1..Len(sessions')} = inRowOrder
              /\ {Aggregate(SessionKey(s.transport, s.endpoints.a,
                                       s.endpoints.b), s) :
                      s \in {artifact'[1].sessions[i] :
                               i \in 1..Len(artifact'[1].sessions)}}
                   = inRowOrder]_vars

\* The run is done, the rows did not arrive in row order, and a session
\* folded rows with different timestamps and lengths.
C3_Witness ==
    /\ pc = "done"
    /\ rows_read # InRowOrder(rows_read)
    /\ \E i \in 1..Len(sessions) :
          /\ sessions[i].value.packet_count >= 2
          /\ sessions[i].value.first_ts < sessions[i].value.last_ts
          /\ sessions[i].value.byte_count > 0
          /\ sessions[i].value.rule_flags # <<>>

-----------------------------------------------------------------------------
(* The rule engine on its own: one session with counters around the        *)
(* thresholds, then the finalization.                                      *)

PacketCounts ==
    {1, ManyPacketsThreshold - 1, ManyPacketsThreshold, ManyPacketsThreshold + 1}

Durations ==
    {0, LongDurationThreshold - 1, LongDurationThreshold, LongDurationThreshold + 1}

ByteCounts ==
    {0, LargeBytesThreshold - 1, LargeBytesThreshold, LargeBytesThreshold + 1}

\* a row of each transport
TransportRows == {1, 3, 4}

SessionAround(n, packets, duration, bytes) ==
    [key |-> FlowId(RowTable[n]).key,
     value |-> [NewSession(FlowId(RowTable[n]).id, FlowOf[n].transport,
                           FlowId(RowTable[n]).a, FlowId(RowTable[n]).b,
                           0, 1)
                EXCEPT !.packet_count = packets, !.byte_count = bytes,
                       !.last_ts = duration]]

InitRules ==
    /\ pcap_is_file = TRUE
    /\ tshark_found = TRUE
    /\ cap = 0
    /\ pc = "reading"
    /\ rows_read = <<>>
    /\ \E n \in TransportRows, packets \in PacketCounts,
          duration \in Durations, bytes \in ByteCounts :
          /\ duration > 0 => packets >= 2
          /\ sessions = <<SessionAround(n, packets, duration, bytes)>>
          /\ packet_count = packets
          /\ first_ts = Some(0)
          /\ last_ts = Some(duration)
    /\ events = <<>>
    /\ artifact = None
    /\ written = None

NextRules == Finish

SpecRules == InitRules /\ [][NextRules]_vars

Distinct(list) == \A i, j \in 1..Len(list) : list[i] = list[j] => i = j

Has(list, x) == \E i \in 1..Len(list) : list[i] = x

Flagged(s) ==
    /\ Has(s.rule_flags, "many_packets") <=> s.packet_count >= 1000
    /\ Has(s.rule_flags, "long_duration") <=> s.last_ts - s.first_ts >= 60
    /\ Has(s.rule_flags, "large_bytes") <=> s.byte_count >= 10 * 1024 * 1024
    /\ Has(s.rule_flags, "non_tcp_udp") <=> s.transport = "other"
    /\ \A i \in 1..Len(s.rule_flags) :
          s.rule_flags[i] \in {"many_packets", "long_duration",
                               "large_bytes", "non_tcp_udp"}
    /\ Distinct(s.rule_flags)

(* C4: the rule flags at finalization.  A finalized session carries        *)
(* many_packets iff packet_count >= 1000, long_duration iff last_ts -      *)
(* first_ts >= 60, large_bytes iff byte_count >= 10 MiB and non_tcp_udp    *)
(* iff its transport is other, each decided on its own, and it carries no  *)
(* other flag and none twice.                                              *)
C4_RuleFlags ==
    pc = "done" =>
        /\ \A i \in 1..Len(sessions) : Flagged(sessions[i].value)
        /\ \A i \in 1..Len(artifact[1].sessions) :
              Flagged(artifact[1].sessions[i])

\* A finalized session exactly on the three thresholds, of transport
\* other: it carries the four flags.
C4_Witness ==
    /\ pc = "done"
    /\ \E i \in 1..Len(artifact[1].sessions) :
          /\ artifact[1].sessions[i].packet_count = 1000
          /\ artifact[1].sessions[i].duration_seconds = 60
          /\ artifact[1].sessions[i].byte_count = 10 * 1024 * 1024
          /\ artifact[1].sessions[i].transport = "other"
          /\ Len(artifact[1].sessions[i].rule_flags) = 4

-----------------------------------------------------------------------------
(* C5: the timeline of the artifact is the emitted events in another       *)
(* order: as many entries, timestamps ascending, and for each timestamp    *)
(* the events with that timestamp are the emitted ones in the order of     *)
(* their emission.                                                         *)
At(list, t) == SelectSeq(list, LAMBDA e : e.ts = t)

C5_TimelineStable ==
    pc = "done" =>
        /\ Len(artifact[1].timeline) = Len(events)
        /\ \A i \in 1..(Len(events) - 1) :
              artifact[1].timeline[i].ts <= artifact[1].timeline[i + 1].ts
        /\ \A i \in 1..Len(events) :
              At(artifact[1].timeline, events[i].ts) = At(events, events[i].ts)

\* The events were emitted out of time order, and two different events
\* have the same timestamp.
C5_Witness ==
    /\ pc = "done"
    /\ \E i, j \in 1..Len(events) :
          i < j /\ events[j].ts < events[i].ts
    /\ \E i, j \in 1..Len(events) :
          i < j /\ events[i].ts = events[j].ts /\ events[i] # events[j]

-----------------------------------------------------------------------------
(* C6: the session list of the artifact holds every session once, ordered  *)
(* by first_ts and then by id: of two consecutive sessions s and t,        *)
(* s.first_ts < t.first_ts, or s.first_ts = t.first_ts and s.id <= t.id.   *)
C6_SessionsOrdered ==
    pc = "done" =>
        /\ Len(artifact[1].sessions) = Len(sessions)
        /\ \A k \in 1..Len(sessions) :
              Cardinality({i \in 1..Len(artifact[1].sessions) :
                              artifact[1].sessions[i] = sessions[k].value}) = 1
        /\ \A i \in 1..(Len(sessions) - 1) :
              LET s == artifact[1].sessions[i]
                  t == artifact[1].sessions[i + 1]
              IN  \/ s.first_ts < t.first_ts
                  \/ s.first_ts = t.first_ts
                       /\ (s.id = t.id \/ StrLess(s.id, t.id))

\* Two sessions start at the same time and the list has them in the
\* order of their ids, which is not the order of their creation.
C6_Witness ==
    /\ pc = "done"
    /\ \E i, j \in 1..Len(sessions) :
          /\ i < j
          /\ sessions[i].value.first_ts = sessions[j].value.first_ts
          /\ StrLess(sessions[j].value.id, sessions[i].value.id)
    /\ \E i \in 1..Len(sessions) :
          artifact[1].sessions[i] # sessions[i].value

-----------------------------------------------------------------------------
\* a row was read in this step
ReadStep == pc = "reading" /\ Len(rows_read') = Len(rows_read) + 1

\* the row read in this step
RowRead == rows_read'[Len(rows_read')]

(* C7: a dropped row leaves the correlation state alone.  In a step that   *)
(* reads a row without a frame number that parses, without a timestamp     *)
(* that parses, or without an address on one side, the session map and     *)
(* the event list stay as they were and the loop goes on reading: no       *)
(* error is raised.                                                        *)
C7_DropChangesNothing ==
    [][ReadStep /\ RowRead \in Droppable
          => sessions' = sessions /\ events' = events /\ pc' = "reading"]_vars

\* The loop has sessions and events, and the row it read last was
\* dropped for want of an address.
C7_Witness ==
    /\ pc = "reading"
    /\ sessions # <<>>
    /\ events # <<>>
    /\ rows_read # <<>>
    /\ rows_read[Len(rows_read)] \in Droppable
    /\ _safe_int(RowTable[rows_read[Len(rows_read)]].frame_number) # None
    /\ _safe_float(RowTable[rows_read[Len(rows_read)]].time_epoch) # None

-----------------------------------------------------------------------------
\* the sum of packet_count over a list of sessions
SumPacketCount(list) ==
    LET sum[k \in 0..Len(list)] ==
            IF k = 0 THEN 0 ELSE sum[k - 1] + list[k].packet_count
    IN  sum[Len(list)]

(* C8: the packet counter counts every row, dropped or not.  While the     *)
(* loop reads, packet_count is the number of rows read; in the artifact    *)
(* pcap.packets_analyzed is the number of rows read, it is at least the    *)
(* sum of packet_count over the sessions, and it is equal to that sum      *)
(* exactly when no row was dropped.                                        *)
C8_CountsEveryRow ==
    /\ pc = "reading" => packet_count = Len(rows_read)
    /\ pc = "done" =>
          /\ artifact[1].pcap.packets_analyzed = Len(rows_read)
          /\ artifact[1].pcap.packets_analyzed
                >= SumPacketCount(artifact[1].sessions)
          /\ artifact[1].pcap.packets_analyzed
                = SumPacketCount(artifact[1].sessions)
              <=> \A i \in 1..Len(rows_read) : rows_read[i] \notin Droppable

\* The artifact of a run that dropped a row and folded another.
C8_Witness ==
    /\ pc = "done"
    /\ \E i \in 1..Len(rows_read) : rows_read[i] \in Droppable
    /\ SumPacketCount(artifact[1].sessions) > 0
    /\ artifact[1].pcap.packets_analyzed
          > SumPacketCount(artifact[1].sessions)

-----------------------------------------------------------------------------
\* the session is the one of the flow of row n
SessionOf(s, n) ==
    /\ s.transport = FlowOf[n].transport
    /\ {s.endpoints.a, s.endpoints.b} = FlowOf[n].ends

\* the step folds row n into one session and leaves the others alone
FoldsIntoOne(n) ==
    IF \E k \in 1..Len(sessions) : SessionOf(sessions[k].value, n)
    THEN /\ Len(sessions') = Len(sessions)
         /\ \E k \in 1..Len(sessions) :
               /\ SessionOf(sessions[k].value, n)
               /\ sessions'[k].key = sessions[k].key
               /\ sessions'[k].value.packet_count
                     = sessions[k].value.packet_count + 1
               /\ \A m \in 1..Len(sessions) :
                     m # k => sessions'[m] = sessions[m]
    ELSE /\ Len(sessions') = Len(sessions) + 1
         /\ SessionOf(sessions'[Len(sessions')].value, n)
         /\ sessions'[Len(sessions')].value.packet_count = 1
         /\ \A m \in 1..Len(sessions) : sessions'[m] = sessions[m]

(* C9: an accepted row changes one session.  In a step that reads a row    *)
(* with frame number, timestamp and both addresses, the packet_count of    *)
(* one session grows by 1, that session being new with packet_count 1      *)
(* when the flow of the row had none, and every other session stays as it  *)
(* was; and in every state the sum of packet_count over the sessions is    *)
(* the number of accepted rows read so far.                                *)
C9_OneSessionPerRow ==
    /\ [](SumPacketCount(Values) = Cardinality(AcceptedAt))
    /\ [][ReadStep /\ RowRead \in Acceptable => FoldsIntoOne(RowRead)]_vars

\* Rows were folded into an existing session beside another session.
C9_Witness ==
    /\ pc = "reading"
    /\ Len(sessions) >= 2
    /\ \E k \in 1..Len(sessions) : sessions[k].value.packet_count >= 2

-----------------------------------------------------------------------------
\* the timestamps of the rows read that belong to the session
TimesOf(s) ==
    {FlowOf[rows_read[i]].ts :
        i \in {j \in AcceptedAt : SessionOf(s, rows_read[j])}}

IsMin(t, T) == t \in T /\ \A u \in T : t <= u

IsMax(t, T) == t \in T /\ \A u \in T : t >= u

\* first_ts and last_ts of s are the least and the greatest of T
Spans(s, T) == IsMin(s.first_ts, T) /\ IsMax(s.last_ts, T)

(* C10: the time bounds of a session.  In every state first_ts is the      *)
(* least and last_ts the greatest timestamp of the rows folded into the    *)
(* session, in whatever order they arrived, so last_ts >= first_ts; and    *)
(* the duration_seconds of a finalized session is last_ts - first_ts and   *)
(* is not negative.                                                        *)
C10_TimeBounds ==
    /\ \A k \in 1..Len(sessions) :
          /\ Spans(sessions[k].value, TimesOf(sessions[k].value))
          /\ sessions[k].value.last_ts >= sessions[k].value.first_ts
    /\ pc = "done" =>
          \A k \in 1..Len(artifact[1].sessions) :
              /\ Spans(artifact[1].sessions[k], TimesOf(artifact[1].sessions[k]))
              /\ artifact[1].sessions[k].duration_seconds
                    = artifact[1].sessions[k].last_ts
                        - artifact[1].sessions[k].first_ts
              /\ artifact[1].sessions[k].duration_seconds >= 0

\* A finalized session whose rows arrived out of time order: a later row
\* is earlier than the one before it and than the first.
C10_Witness ==
    /\ pc = "done"
    /\ \E i, j \in AcceptedAt :
          /\ i < j
          /\ SessionOf(sessions[1].value, rows_read[i])
          /\ SessionOf(sessions[1].value, rows_read[j])
          /\ FlowOf[rows_read[j]].ts < FlowOf[rows_read[i]].ts
          /\ sessions[1].value.first_ts = FlowOf[rows_read[j]].ts
          /\ artifact[1].sessions[1].duration_seconds > 0

-----------------------------------------------------------------------------
Kinds == {"dns_query", "http_request", "tls_sni"}

\* the observations of one kind of a session
ObservationsOf(s, kind) ==
    CASE kind = "dns_query" -> s.observations.dns_queries
      [] kind = "http_request" -> s.observations.http_requests
      [] kind = "tls_sni" -> s.observations.tls_sni

\* the events of one kind of a session, in the order of the list
EventsOf(list, id, kind) ==
    SelectSeq(list, LAMBDA e : e.session_id = id /\ e.kind = kind)

\* timestamp and frame of each entry of a list of events or observations
Marks(list) ==
    [i \in 1..Len(list) |-> <<list[i].ts, list[i].evidence_frame>>]

\* the number of observations of a kind over a list of sessions
CountObservations(list, kind) ==
    LET sum[k \in 0..Len(list)] ==
            IF k = 0 THEN 0
            ELSE sum[k - 1] + Len(ObservationsOf(list[k], kind))
    IN  sum[Len(list)]

EventsMatchObservations ==
    /\ \A i \in 1..Len(events) :
          /\ events[i].kind \in Kinds
          /\ \E k \in 1..Len(sessions) :
                sessions[k].value.id = events[i].session_id
    /\ \A kind \in Kinds :
          /\ Len(SelectSeq(events, LAMBDA e : e.kind = kind))
                = CountObservations(Values, kind)
          /\ \A k \in 1..Len(sessions) :
                Marks(EventsOf(events, sessions[k].value.id, kind))
                  = Marks(ObservationsOf(sessions[k].value, kind))

(* C11: observations and timeline events go together.  In every state the *)
(* number of events of each kind is the number of observations of that    *)
(* kind over all sessions, the events of a kind with the id of a session  *)
(* carry, one for one and in order, the ts and evidence_frame of that     *)
(* session's observations of the kind, and every event has the id of a    *)
(* session; and a step only appends to the event list: the events         *)
(* emitted before stay as they were.                                      *)
C11_EventsPaired ==
    /\ []EventsMatchObservations
    /\ [][/\ Len(events') >= Len(events)
          /\ SubSeq(events', 1, Len(events)) = events]_vars

\* Two sessions hold observations, one of them two of a kind, and the
\* loop has emitted the events of the three kinds.
C11_Witness ==
    /\ \A kind \in Kinds : \E i \in 1..Len(events) : events[i].kind = kind
    /\ \E k, m \in 1..Len(sessions) :
          /\ k # m
          /\ \E kind \in Kinds : Len(ObservationsOf(sessions[k].value, kind)) >= 2
          /\ \E kind \in Kinds : Len(ObservationsOf(sessions[m].value, kind)) >= 1

-----------------------------------------------------------------------------
Raised == {"pcap_not_found", "tshark_not_found", "tshark_failed"}

(* C12: one complete artifact or none.  analyze_pcap returns an artifact, *)
(* and the command writes it, only in a run that ends without raising;    *)
(* when the input is no file, the dissector is not found or the dissector *)
(* fails, whatever was read and folded before, nothing is returned and    *)
(* nothing is written.  A missing input is raised as such even when the   *)
(* dissector is missing too, and the dissector is started only with both  *)
(* present.                                                               *)
C12_AllOrNothing ==
    /\ [](/\ pc \in Raised \cup {"start", "reading"}
              => artifact = None /\ written = None
          /\ pc = "done" => artifact # None /\ written = artifact
          /\ pc \in {"reading", "done", "tshark_failed"}
              => pcap_is_file /\ tshark_found
          /\ pc = "tshark_not_found" => pcap_is_file)
    /\ [][/\ pc = "start" /\ ~pcap_is_file => pc' = "pcap_not_found"
          /\ pc = "start" /\ pcap_is_file /\ ~tshark_found
              => pc' = "tshark_not_found"
          /\ pc \notin Raised \cup {"done"}]_vars

\* The dissector failed after rows were read and folded into sessions
\* and events: nothing was returned or written.
C12_Witness ==
    /\ pc = "tshark_failed"
    /\ Len(rows_read) >= 2
    /\ sessions # <<>>
    /\ events # <<>>
    /\ artifact = None
    /\ written = None

-----------------------------------------------------------------------------
-----------------------------------------------------------------------------
\* a session as the loop keeps it: no flags, no duration
Unfinalized(s) ==
    s.rule_flags = <<>> /\ "duration_seconds" \notin DOMAIN s

\* the step from the loop to the end of the run finalizes each session
\* once: it adds the duration, sets the flags and leaves the rest
FinalizesEach ==
    /\ Len(sessions') = Len(sessions)
    /\ \A k \in 1..Len(sessions) :
          /\ sessions'[k].key = sessions[k].key
          /\ DOMAIN sessions'[k].value
                = DOMAIN sessions[k].value \cup {"duration_seconds"}
          /\ \A f \in DOMAIN sessions[k].value \ {"rule_flags"} :
                sessions'[k].value[f] = sessions[k].value[f]
          /\ sessions'[k].value.duration_seconds
                = sessions[k].value.last_ts - sessions[k].value.first_ts

(* C14: the life of a session.  Until the run has ended well, that is     *)
(* while rows are read and also when the run fails, every session has     *)
(* empty rule_flags and no duration.  The step that ends the run, taken   *)
(* from the loop, gives each session its duration and flags and changes   *)
(* no other field.  After it every session has a duration, the sessions   *)
(* of the artifact are these same sessions, each once, and no step        *)
(* follows: nothing changes them again.                                   *)
C14_Lifecycle ==
    /\ [](pc # "done" => \A k \in 1..Len(sessions) : Unfinalized(sessions[k].value))
    /\ [](pc = "done" =>
            /\ Len(artifact[1].sessions) = Len(sessions)
            /\ \A k \in 1..Len(sessions) :
                  /\ "duration_seconds" \in DOMAIN sessions[k].value
                  /\ \E i \in 1..Len(sessions) :
                        artifact[1].sessions[i] = sessions[k].value)
    /\ [][/\ pc' = "done" => pc = "reading" /\ FinalizesEach
          /\ pc # "done"]_vars

\* A finished run whose sessions carry flags and a duration; the artifact
\* lists them in another order than the session map.
C14_Witness ==
    /\ pc = "done"
    /\ Len(sessions) >= 2
    /\ \E k \in 1..Len(sessions) :
          /\ sessions[k].value.rule_flags # <<>>
          /\ sessions[k].value.duration_seconds > 0
          /\ artifact[1].sessions[k] # sessions[k].value

-----------------------------------------------------------------------------
\* rows n and m have the same transport and the same two endpoints
SameFlow(n, m) ==
    FlowOf[n].transport = FlowOf[m].transport /\ FlowOf[n].ends = FlowOf[m].ends

KeysSeparateFlows ==
    \A n, m \in Acceptable :
        FlowIdOf[n].key = FlowIdOf[m].key <=> SameFlow(n, m)

\* the flows of the accepted rows read
FlowsRead ==
    {<<FlowOf[rows_read[i]].transport, FlowOf[rows_read[i]].ends>> :
        i \in AcceptedAt}

\* the frame length of each acceptable row, 0 when it has none
LenOf ==
    [n \in Acceptable |->
        IF _safe_int(RowTable[n].frame_len) = None THEN 0
        ELSE _safe_int(RowTable[n].frame_len)[1]] @@ <<>>

\* the sum of the frame lengths of the rows read at the positions in P
BytesAt(P) ==
    LET sum[k \in 0..Len(rows_read)] ==
            IF k = 0 THEN 0
            ELSE sum[k - 1] + (IF k \in P THEN LenOf[rows_read[k]] ELSE 0)
    IN  sum[Len(rows_read)]

\* the positions of the rows read that have the flow of the session
RowsOf(s) == {i \in AcceptedAt : SessionOf(s, rows_read[i])}

\* the session has counted the rows at the positions in P, and there are some
HasCounted(s, P) ==
    /\ P # {}
    /\ s.packet_count = Cardinality(P)
    /\ s.byte_count = BytesAt(P)

\* one session for each flow read, each with the counts of its own rows
OneSessionPerFlow ==
    /\ Len(sessions) = Cardinality(FlowsRead)
    /\ \A k \in 1..Len(sessions) :
          /\ \A m \in 1..Len(sessions) :
                /\ sessions[m].value.transport = sessions[k].value.transport
                /\ {sessions[m].value.endpoints.a, sessions[m].value.endpoints.b}
                     = {sessions[k].value.endpoints.a, sessions[k].value.endpoints.b}
                => m = k
          /\ HasCounted(sessions[k].value, RowsOf(sessions[k].value))

(* C15: a session is a transport and an unordered pair of endpoints.  Two *)
(* acceptable rows get the same session key if and only if they have the  *)
(* same derived transport and the same set of two (ip, port) endpoints;   *)
(* and in every state there is one session for each flow among the rows   *)
(* read, no two sessions have the same transport and endpoints, and each  *)
(* session has counted the packets and bytes of the rows of its flow and  *)
(* of no other row.                                                       *)
C15_SessionIdentity == [](KeysSeparateFlows /\ OneSessionPerFlow)

\* Rows between the same two endpoints over tcp and over udp, and a row
\* that differs from the first in one port only, sit in three sessions.
C15_Witness ==
    /\ Len(sessions) = 3
    /\ \E i, j, l \in AcceptedAt :
          /\ FlowOf[rows_read[i]].ends = FlowOf[rows_read[j]].ends
          /\ FlowOf[rows_read[i]].transport = "tcp"
          /\ FlowOf[rows_read[j]].transport = "udp"
          /\ FlowOf[rows_read[l]].transport = "tcp"
          /\ FlowOf[rows_read[l]].ends # FlowOf[rows_read[i]].ends
          /\ {e.ip : e \in FlowOf[rows_read[l]].ends}
                = {e.ip : e \in FlowOf[rows_read[i]].ends}

-----------------------------------------------------------------------------
\* the field holds a port
HasPort(field) == _safe_int(field) # None

\* transport and ports are derived from the row's port fields, TCP first
DerivedAsStated(row) ==
    /\ HasPort(row.tcp_srcport) \/ HasPort(row.tcp_dstport) =>
          /\ Transport(row).transport = "tcp"
          /\ Transport(row).src_port = _safe_int(row.tcp_srcport)
          /\ Transport(row).dst_port = _safe_int(row.tcp_dstport)
    /\ (/\ ~(HasPort(row.tcp_srcport) \/ HasPort(row.tcp_dstport))
        /\ HasPort(row.udp_srcport) \/ HasPort(row.udp_dstport)) =>
          /\ Transport(row).transport = "udp"
          /\ Transport(row).src_port = _safe_int(row.udp_srcport)
          /\ Transport(row).dst_port = _safe_int(row.udp_dstport)
    /\ ~(\/ HasPort(row.tcp_srcport) \/ HasPort(row.tcp_dstport)
         \/ HasPort(row.udp_srcport) \/ HasPort(row.udp_dstport)) =>
          /\ Transport(row).transport = "other"
          /\ Transport(row).src_port = None
          /\ Transport(row).dst_port = None

\* the transport the statement gives the row
StatedTransport(row) ==
    IF HasPort(row.tcp_srcport) \/ HasPort(row.tcp_dstport) THEN "tcp"
    ELSE IF HasPort(row.udp_srcport) \/ HasPort(row.udp_dstport) THEN "udp"
    ELSE "other"

\* the endpoints the statement gives the row
StatedEnds(row) ==
    {[ip |-> SrcIp(row),
      port |-> CASE StatedTransport(row) = "tcp" -> _safe_int(row.tcp_srcport)
                 [] StatedTransport(row) = "udp" -> _safe_int(row.udp_srcport)
                 [] OTHER -> None],
     [ip |-> DstIp(row),
      port |-> CASE StatedTransport(row) = "tcp" -> _safe_int(row.tcp_dstport)
                 [] StatedTransport(row) = "udp" -> _safe_int(row.udp_dstport)
                 [] OTHER -> None]}

AllDerivedAsStated == \A n \in Acceptable : DerivedAsStated(RowTable[n])

StatedOf ==
    [n \in Acceptable |-> [transport |-> StatedTransport(RowTable[n]),
                           ends |-> StatedEnds(RowTable[n])]] @@ <<>>

(* C16: the transport of a row.  A row with a TCP port, source or         *)
(* destination, is tcp with the TCP ports, also when it has UDP ports;    *)
(* a row without TCP port and with a UDP port is udp with the UDP ports;  *)
(* a row with neither is other with both ports absent.  In every state    *)
(* each accepted row read has a session of that transport between its     *)
(* two addresses with those ports.                                        *)
C16_TransportDerivation ==
    /\ AllDerivedAsStated
    /\ \A i \in AcceptedAt :
          \E k \in 1..Len(sessions) :
              /\ sessions[k].value.transport = StatedOf[rows_read[i]].transport
              /\ {sessions[k].value.endpoints.a, sessions[k].value.endpoints.b}
                    = StatedOf[rows_read[i]].ends

\* A row with TCP and UDP ports, a row with a UDP port alone and a row
\* without ports were read: the sessions are tcp, udp and other.
C16_Witness ==
    /\ \E i \in AcceptedAt :
          /\ HasPort(Row(i).tcp_srcport)
          /\ HasPort(Row(i).udp_srcport)
    /\ \E i \in AcceptedAt :
          /\ ~HasPort(Row(i).udp_srcport)
          /\ HasPort(Row(i).udp_dstport)
    /\ {sessions[k].value.transport : k \in 1..Len(sessions)}
          = {"tcp", "udp", "other"}
    /\ \E k \in 1..Len(sessions) :
          /\ sessions[k].value.transport = "other"
          /\ sessions[k].value.endpoints.a.port = None
          /\ sessions[k].value.endpoints.b.port = None

-----------------------------------------------------------------------------
\* the frame numbers of the rows folded into the session, in arrival order
FramesOf(s) ==
    LET frames[k \in 0..Len(rows_read)] ==
            IF k = 0 THEN <<>>
            ELSE IF k \in AcceptedAt /\ SessionOf(s, rows_read[k])
                 THEN Append(frames[k - 1], FlowOf[rows_read[k]].frame_no)
                 ELSE frames[k - 1]
    IN  frames[Len(rows_read)]

\* the sample is the first frames of the session, up to the cap
IsPrefixSample(s) ==
    s.evidence.sample_frames
        = SubSeq(FramesOf(s), 1, min(cap, s.packet_count))

(* C17: the evidence sample is a prefix.  For a cap c >= 0, in every      *)
(* state and in the artifact the sample_frames of a session are the frame *)
(* numbers of the first min(c, packet_count) rows folded into it, in      *)
(* arrival order; and a step leaves alone every sample that holds c       *)
(* frames.                                                                *)
C17_SamplePrefix ==
    /\ [](cap >= 0 =>
            /\ \A k \in 1..Len(sessions) : IsPrefixSample(sessions[k].value)
            /\ pc = "done" =>
                  \A k \in 1..Len(artifact[1].sessions) :
                      IsPrefixSample(artifact[1].sessions[k]))
    /\ [][cap >= 0 =>
            \A k \in 1..Len(sessions) :
                Len(sessions[k].value.evidence.sample_frames) = cap =>
                    sessions'[k].value.evidence.sample_frames
                        = sessions[k].value.evidence.sample_frames]_vars

\* A session of three rows that arrived out of frame order, with a cap
\* of two: the sample is the first two in arrival order.
C17_Witness ==
    /\ cap = 2
    /\ \E k \in 1..Len(sessions) :
          /\ sessions[k].value.packet_count = 3
          /\ Len(sessions[k].value.evidence.sample_frames) = 2
          /\ sessions[k].value.evidence.sample_frames[1]
                > sessions[k].value.evidence.sample_frames[2]
          /\ FramesOf(sessions[k].value)[3]
                # sessions[k].value.evidence.sample_frames[2]

-----------------------------------------------------------------------------
\* the evidence frames of the observations of a session
ObservedFrames(s) ==
    UNION {{ObservationsOf(s, kind)[i].evidence_frame :
                i \in 1..Len(ObservationsOf(s, kind))} : kind \in Kinds}

\* the members of a sequence
Range(list) == {list[i] : i \in 1..Len(list)}

\* the evidence of s is bounded by the least and greatest of frames
EnclosedBy(s, frames) ==
    /\ IsMin(s.evidence.first_frame, frames)
    /\ IsMax(s.evidence.last_frame, frames)
    /\ \A f \in Range(s.evidence.sample_frames) \cup ObservedFrames(s) :
          s.evidence.first_frame <= f /\ f <= s.evidence.last_frame

FramesEnclosed(s) == EnclosedBy(s, Range(FramesOf(s)))

(* C18: the frame bounds of a session.  In every state and in the         *)
(* artifact evidence.first_frame is the least and evidence.last_frame the *)
(* greatest frame number of the rows folded into the session, in whatever *)
(* order they arrived, and every frame of sample_frames and every         *)
(* evidence_frame of an observation of the session lies between them.     *)
C18_FrameBounds ==
    [](/\ \A k \in 1..Len(sessions) : FramesEnclosed(sessions[k].value)
       /\ pc = "done" =>
             \A k \in 1..Len(artifact[1].sessions) :
                 FramesEnclosed(artifact[1].sessions[k]))

\* A session whose rows arrived out of frame order, with a sample and an
\* observation.
C18_Witness ==
    \E k \in 1..Len(sessions) :
        /\ Len(FramesOf(sessions[k].value)) >= 2
        /\ FramesOf(sessions[k].value)[1] > FramesOf(sessions[k].value)[2]
        /\ sessions[k].value.evidence.first_frame
              < sessions[k].value.evidence.last_frame
        /\ sessions[k].value.evidence.sample_frames # <<>>
        /\ ObservedFrames(sessions[k].value) # {}

-----------------------------------------------------------------------------
\* the kinds of event the statement gives a row, in order
StatedKinds(row) ==
    (IF ~Absent(row.dns_qry_name) THEN <<"dns_query">> ELSE <<>>)
    \o (IF ~Absent(row.http_method)
            /\ (~Absent(row.http_host) \/ ~Absent(row.http_uri))
        THEN <<"http_request">> ELSE <<>>)
    \o (IF ~Absent(row.tls_sni) THEN <<"tls_sni">> ELSE <<>>)

\* an event without its summary
Brief(e) ==
    [kind |-> e.kind, ts |-> e.ts, evidence_frame |-> e.evidence_frame,
     session_id |-> e.session_id]

\* the events the statement gives each acceptable row
StatedEvents ==
    [n \in Acceptable |->
        [i \in 1..Len(StatedKinds(RowTable[n])) |->
            [kind |-> StatedKinds(RowTable[n])[i], ts |-> FlowOf[n].ts,
             evidence_frame |-> FlowOf[n].frame_no,
             session_id |-> FlowIdOf[n].id]]] @@ <<>>

\* the list has the events of row n next to each other and in order
HasInOrder(list, n) ==
    \E p \in 0..(Len(list) - Len(StatedEvents[n])) :
        \A i \in 1..Len(StatedEvents[n]) :
            Brief(list[p + i]) = StatedEvents[n][i]

(* C19: the events of one row.  A step that reads an accepted row appends *)
(* to the event list a dns_query event iff the row has a DNS query name,  *)
(* an http_request event iff it has an HTTP method and a host or a URI,   *)
(* and a tls_sni event iff it has an SNI, in this order and nothing else; *)
(* and the timeline of the artifact has the events of each accepted row   *)
(* in that same order.                                                    *)
C19_EventsOfARow ==
    /\ [][ReadStep /\ RowRead \in Acceptable =>
            /\ Len(events') = Len(events) + Len(StatedEvents[RowRead])
            /\ SubSeq(events', 1, Len(events)) = events
            /\ \A i \in 1..Len(StatedEvents[RowRead]) :
                  Brief(events'[Len(events) + i]) = StatedEvents[RowRead][i]]_vars
    /\ [](pc = "done" =>
            \A i \in AcceptedAt : HasInOrder(artifact[1].timeline, rows_read[i]))

\* A finished run over a row with the three observations, a row with an
\* HTTP host and no method, and an earlier row read after them.
C19_Witness ==
    /\ pc = "done"
    /\ \E i, j, l \in AcceptedAt :
          /\ Len(StatedEvents[rows_read[i]]) = 3
          /\ ~Absent(Row(j).http_host) /\ Absent(Row(j).http_method)
          /\ i < l
          /\ StatedEvents[rows_read[l]] # <<>>
          /\ FlowOf[rows_read[l]].ts < FlowOf[rows_read[i]].ts
    /\ Len(artifact[1].timeline) = 4

-----------------------------------------------------------------------------
\* the rows with a frame number and a timestamp that parse
TimedRows ==
    {n \in RowNumbers : /\ _safe_int(RowTable[n].frame_number) # None
                        /\ _safe_float(RowTable[n].time_epoch) # None}

TsOf == [n \in TimedRows |-> _safe_float(RowTable[n].time_epoch)[1]] @@ <<>>

\* the timestamps of the rows read that have frame number and timestamp
TimesRead ==
    {TsOf[rows_read[i]] : i \in {j \in 1..Len(rows_read) : rows_read[j] \in TimedRows}}

\* first and last are the bounds of the timestamps read and enclose the
\* given sessions and events
Bounds(T, first, last, ss, es) ==
    /\ first = None <=> T = {}
    /\ last = None <=> T = {}
    /\ T # {} =>
          /\ IsMin(first[1], T)
          /\ IsMax(last[1], T)
          /\ \A k \in 1..Len(ss) :
                first[1] <= ss[k].first_ts /\ ss[k].last_ts <= last[1]
          /\ \A i \in 1..Len(es) :
                first[1] <= es[i].ts /\ es[i].ts <= last[1]
    /\ T = {} => ss = <<>> /\ es = <<>>

Covers(first, last, ss, es) == Bounds(TimesRead, first, last, ss, es)

(* C20: the time bounds of the capture.  first_ts and last_ts of the      *)
(* capture are the least and the greatest timestamp of the rows read that *)
(* have a frame number and a timestamp, the rows dropped for want of an   *)
(* address among them; they are absent iff there is no such row; and      *)
(* every session and every event lies between them, in the loop and in    *)
(* the pcap block, the sessions and the timeline of the artifact.         *)
C20_CaptureBounds ==
    [](/\ Covers(first_ts, last_ts, Values, events)
       /\ pc = "done" =>
             Covers(artifact[1].pcap.first_ts, artifact[1].pcap.last_ts,
                    artifact[1].sessions, artifact[1].timeline))

\* The artifact of a run whose latest row was dropped for want of an
\* address: the capture ends after its last session.
C20_Witness ==
    /\ pc = "done"
    /\ artifact[1].sessions # <<>>
    /\ artifact[1].timeline # <<>>
    /\ \A k \in 1..Len(artifact[1].sessions) :
          artifact[1].sessions[k].last_ts < artifact[1].pcap.last_ts[1]
    /\ \E i \in 1..Len(rows_read) :
          /\ rows_read[i] \in TimedRows \cap Droppable
          /\ TsOf[rows_read[i]] = artifact[1].pcap.last_ts[1]

====
